---- MODULE Spec2Model ----
(***************************************************************************)
(* The `run-op-program` subcommand of opfp: a fault-proof fixture is       *)
(* materialized into the scratch directory, op-program is spawned          *)
(* directly or inside cannon, statistics are collected and the scratch     *)
(* directory is removed.                                                   *)
(*                                                                         *)
(* Option<T> values are sets with at most one element: {} is None and {v}  *)
(* is Some(v).  A file's content is a sequence: <<>> is an empty           *)
(* (created, never written) file, <<v>> a file holding the text v.         *)
(***************************************************************************)
EXTENDS Integers, Sequences, FiniteSets, TLC

(***************************************************************************)
(* Bounds of the model.                                                    *)
(***************************************************************************)
\* Longest witness preimage, in bytes.
MaxValueLen == 1
\* Most entries of one fixture's witness_data.
MaxWitness == 2

None == {}
Some(v) == {v}
Unwrap(o) == CHOOSE v \in o : TRUE

(***************************************************************************)
(* Hex encoding (alloy_primitives::hex::ToHexExt) and decimal formatting.  *)
(***************************************************************************)
HexDigits == <<"0", "1", "2", "3", "4", "5", "6", "7",
               "8", "9", "a", "b", "c", "d", "e", "f">>

HexByte(b) == HexDigits[(b \div 16) + 1] \o HexDigits[(b % 16) + 1]

RECURSIVE encode_hex(_)
encode_hex(bytes) ==
    IF bytes = <<>> THEN ""
    ELSE HexByte(Head(bytes)) \o encode_hex(Tail(bytes))

encode_hex_with_prefix(bytes) == "0x" \o encode_hex(bytes)

RECURSIVE to_string(_)
to_string(n) ==
    IF n < 10 THEN HexDigits[n + 1]
    ELSE to_string(n \div 10) \o HexDigits[(n % 10) + 1]

(***************************************************************************)
(* Paths.                                                                  *)
(***************************************************************************)
temp_dir == "/tmp"
PathJoin(dir, name) == dir \o "/" \o name
data_dir == PathJoin(temp_dir, "op-program-input")
debug_path == PathJoin(temp_dir, "cannon-debug.json")

(***************************************************************************)
(* The fixture data model (op_test_vectors::faultproof).                   *)
(***************************************************************************)
\* The bytes witness preimages are made of.
ByteVals == {171}

RECURSIVE BytesUpTo(_)
BytesUpTo(n) ==
    IF n = 0 THEN {<<>>}
    ELSE LET shorter == BytesUpTo(n - 1)
         IN  shorter \cup {Append(s, b) : s \in {t \in shorter : Len(t) = n - 1},
                                          b \in ByteVals}

Values == BytesUpTo(MaxValueLen)

RECURSIVE SumBytes(_)
SumBytes(bytes) ==
    IF bytes = <<>> THEN 0 ELSE Head(bytes) + SumBytes(Tail(bytes))

\* The content hash of a preimage: a one-byte digest standing for keccak256.
Hash(value) == <<(31 * Len(value) + SumBytes(value)) % 256>>

Keys == {Hash(v) : v \in Values}

\* witness_data: a map from keys to values, keys unique.
WitnessMaps ==
    UNION {[d -> Values] : d \in {k \in SUBSET Keys : Cardinality(k) <= MaxWitness}}

\* kona_primitives::RollupConfig, the upstream chain configuration.
KonaCfgA ==
    [genesis |->
        [l1 |-> [hash |-> <<17>>, number |-> 1],
         l2 |-> [hash |-> <<34>>, number |-> 0],
         l2_time |-> 100,
         extra_data |-> None,
         system_config |-> Some([batcher_address |-> "0xba7c",
                                 overhead |-> 188,
                                 scalar |-> 684000,
                                 gas_limit |-> 30000000,
                                 base_fee_scalar |-> Some(1),
                                 blob_base_fee_scalar |-> Some(2)])],
     block_time |-> 2,
     max_sequencer_drift |-> 600,
     seq_window_size |-> 3600,
     channel_timeout |-> 300,
     granite_channel_timeout |-> 50,
     l1_chain_id |-> 11155111,
     l2_chain_id |-> 11155420,
     regolith_time |-> Some(0),
     canyon_time |-> Some(10),
     delta_time |-> Some(20),
     ecotone_time |-> Some(30),
     fjord_time |-> Some(40),
     granite_time |-> None,
     holocene_time |-> None,
     batch_inbox_address |-> "0xff01",
     deposit_contract_address |-> "0xde90",
     l1_system_config_address |-> "0x5c01",
     protocol_versions_address |-> "0x9e01",
     superchain_config_address |-> Some("0x5c02"),
     blobs_enabled_l1_timestamp |-> None,
     da_challenge_address |-> None]

\* An upstream configuration whose genesis carries no system config.
KonaCfgNoSys == [KonaCfgA EXCEPT !.genesis.system_config = None]

\* A second upstream configuration, differing in timing and forks.
KonaCfgB ==
    [KonaCfgA EXCEPT !.channel_timeout = 8,
                     !.block_time = 1,
                     !.granite_time = Some(50),
                     !.fjord_time = None,
                     !.da_challenge_address = Some("0xda01")]

KonaCfgs == {KonaCfgA, KonaCfgB, KonaCfgNoSys}

\* The genesis of an Unnamed chain definition.
GenesisA == [config |-> [chainId |-> 11155420], timestamp |-> 100, gasLimit |-> 30000000]

Named(name) == [tag |-> "Named", name |-> name]
Unnamed(rollup_config, genesis) ==
    [tag |-> "Unnamed", rollup_config |-> rollup_config, genesis |-> genesis]

ChainDefinitions ==
    {Named("op-sepolia")} \cup {Unnamed(c, GenesisA) : c \in KonaCfgs}

FaultProofInputs(cd) ==
    [l1_head |-> <<17>>,
     l2_head |-> <<34>>,
     l2_output_root |-> <<51>>,
     l2_block_number |-> IF cd.tag = "Named" THEN 7 ELSE 120,
     l2_claim |-> <<171>>,
     chain_definition |-> cd]

Fixture(cd, wd) == [inputs |-> FaultProofInputs(cd), witness_data |-> wd]

\* The fixtures of the model: every witness map with the named chain and
\* with one embedded configuration, no witness with the other configurations.
Fixtures ==
    {Fixture(cd, wd) : cd \in {Named("op-sepolia"), Unnamed(KonaCfgA, GenesisA)},
                       wd \in WitnessMaps}
    \cup {Fixture(cd, <<>>) : cd \in ChainDefinitions}

\* What the fixture path may hold: nothing, text that is no fixture, a fixture.
FixtureFiles ==
    {[state |-> "missing", fixture |-> None],
     [state |-> "malformed", fixture |-> None]}
    \cup {[state |-> "ok", fixture |-> Some(f)] : f \in Fixtures}

(***************************************************************************)
(* util.rs: the local RollupConfig, its conversion from the upstream       *)
(* configuration and its serde serialization.                              *)
(***************************************************************************)
\* The bytes of a B256.
B256Len == 32

RECURSIVE BigEndian(_, _)
\* The len big-endian bytes of n.
BigEndian(n, len) ==
    IF len = 0 THEN <<>>
    ELSE Append(BigEndian(n \div 256, len - 1), n % 256)

\* B256::from(U256): the 32 big-endian bytes of the number.
U256ToB256(n) == BigEndian(n, B256Len)

RECURSIVE B256ToU256(_)
\* U256::from(B256): the number of the big-endian bytes.
B256ToU256(bytes) ==
    IF bytes = <<>> THEN 0
    ELSE B256ToU256(SubSeq(bytes, 1, Len(bytes) - 1)) * 256 + bytes[Len(bytes)]

\* impl From<&kona_primitives::RollupConfig> for RollupConfig; the caller
\* has checked that cfg.genesis.system_config is Some (the unwrap).
RollupConfigFrom(cfg) ==
    LET syscfg == Unwrap(cfg.genesis.system_config)
        genesis == [l1 |-> cfg.genesis.l1,
                    l2 |-> cfg.genesis.l2,
                    l2_time |-> cfg.genesis.l2_time,
                    system_config |-> [batcher_addr |-> syscfg.batcher_address,
                                       overhead |-> U256ToB256(syscfg.overhead),
                                       scalar |-> U256ToB256(syscfg.scalar),
                                       gas_limit |-> syscfg.gas_limit]]
    IN  [genesis |-> genesis,
         block_time |-> cfg.block_time,
         max_sequencer_drift |-> cfg.max_sequencer_drift,
         seq_window_size |-> cfg.seq_window_size,
         channel_timeout_bedrock |-> cfg.channel_timeout,
         l1_chain_id |-> Some(cfg.l1_chain_id),
         l2_chain_id |-> Some(cfg.l2_chain_id),
         regolith_time |-> cfg.regolith_time,
         canyon_time |-> cfg.canyon_time,
         delta_time |-> cfg.delta_time,
         ecotone_time |-> cfg.ecotone_time,
         fjord_time |-> cfg.fjord_time,
         granite_time |-> cfg.granite_time,
         interop_time |-> None,
         batch_inbox_address |-> cfg.batch_inbox_address,
         deposit_contract_address |-> cfg.deposit_contract_address,
         l1_system_config_address |-> cfg.l1_system_config_address,
         protocol_versions_address |-> Some(cfg.protocol_versions_address),
         da_challenge_address |-> cfg.da_challenge_address]

\* Option::unwrap_or.
UnwrapOr(o, default) == IF o = None THEN default ELSE Unwrap(o)

\* RollupConfigInto with the channel timeout of the emulator's envelope.
RollupConfigInto_timeout8(c) ==
    [genesis |->
        [l1 |-> c.genesis.l1,
         l2 |-> c.genesis.l2,
         l2_time |-> c.genesis.l2_time,
         extra_data |-> None,
         system_config |-> Some([batcher_address |-> c.genesis.system_config.batcher_addr,
                                 overhead |-> B256ToU256(c.genesis.system_config.overhead),
                                 scalar |-> B256ToU256(c.genesis.system_config.scalar),
                                 gas_limit |-> c.genesis.system_config.gas_limit,
                                 base_fee_scalar |-> None,
                                 blob_base_fee_scalar |-> None])],
     block_time |-> c.block_time,
     max_sequencer_drift |-> c.max_sequencer_drift,
     seq_window_size |-> c.seq_window_size,
     channel_timeout |-> 8,
     granite_channel_timeout |-> 50,
     l1_chain_id |-> UnwrapOr(c.l1_chain_id, 0),
     l2_chain_id |-> UnwrapOr(c.l2_chain_id, 0),
     regolith_time |-> c.regolith_time,
     canyon_time |-> c.canyon_time,
     delta_time |-> c.delta_time,
     ecotone_time |-> c.ecotone_time,
     fjord_time |-> c.fjord_time,
     granite_time |-> c.granite_time,
     holocene_time |-> None,
     batch_inbox_address |-> c.batch_inbox_address,
     deposit_contract_address |-> c.deposit_contract_address,
     l1_system_config_address |-> c.l1_system_config_address,
     protocol_versions_address |-> UnwrapOr(c.protocol_versions_address, "0x0000"),
     superchain_config_address |-> None,
     blobs_enabled_l1_timestamp |-> None,
     da_challenge_address |-> c.da_challenge_address]

\* impl Into<kona_primitives::RollupConfig> for RollupConfig. The chain ids
\* come from a u64 and fit one again (the try_from cannot fail on them).
RollupConfigInto(c) ==
    [genesis |->
        [l1 |-> c.genesis.l1,
         l2 |-> c.genesis.l2,
         l2_time |-> c.genesis.l2_time,
         extra_data |-> None,
         system_config |-> Some([batcher_address |-> c.genesis.system_config.batcher_addr,
                                 overhead |-> B256ToU256(c.genesis.system_config.overhead),
                                 scalar |-> B256ToU256(c.genesis.system_config.scalar),
                                 gas_limit |-> c.genesis.system_config.gas_limit,
                                 base_fee_scalar |-> None,
                                 blob_base_fee_scalar |-> None])],
     block_time |-> c.block_time,
     max_sequencer_drift |-> c.max_sequencer_drift,
     seq_window_size |-> c.seq_window_size,
     channel_timeout |-> c.channel_timeout_bedrock,
     granite_channel_timeout |-> 50,
     l1_chain_id |-> UnwrapOr(c.l1_chain_id, 0),
     l2_chain_id |-> UnwrapOr(c.l2_chain_id, 0),
     regolith_time |-> c.regolith_time,
     canyon_time |-> c.canyon_time,
     delta_time |-> c.delta_time,
     ecotone_time |-> c.ecotone_time,
     fjord_time |-> c.fjord_time,
     granite_time |-> c.granite_time,
     holocene_time |-> None,
     batch_inbox_address |-> c.batch_inbox_address,
     deposit_contract_address |-> c.deposit_contract_address,
     l1_system_config_address |-> c.l1_system_config_address,
     protocol_versions_address |-> UnwrapOr(c.protocol_versions_address, "0x0000"),
     superchain_config_address |-> None,
     blobs_enabled_l1_timestamp |-> None,
     da_challenge_address |-> c.da_challenge_address]

\* Serialize for SystemConfig: rename_all = "camelCase".
SerializeSystemConfig(sc) ==
    [batcherAddr |-> sc.batcher_addr,
     overhead |-> sc.overhead,
     scalar |-> sc.scalar,
     gasLimit |-> sc.gas_limit]

\* Serialize for Genesis: the field names as they are.
SerializeGenesis(g) ==
    [l1 |-> g.l1,
     l2 |-> g.l2,
     l2_time |-> g.l2_time,
     system_config |-> SerializeSystemConfig(g.system_config)]

\* The Option fields of RollupConfig: skip_serializing_if = "Option::is_none".
RollupConfigOptionKeys ==
    {"l1_chain_id", "l2_chain_id", "regolith_time", "canyon_time", "delta_time",
     "ecotone_time", "fjord_time", "granite_time", "interop_time",
     "protocol_versions_address", "da_challenge_address"}

RollupConfigPlainKeys ==
    {"block_time", "max_sequencer_drift", "seq_window_size",
     "batch_inbox_address", "deposit_contract_address", "l1_system_config_address"}

\* Serialize for RollupConfig: a JSON object, as a function from its keys.
\* channel_timeout_bedrock is renamed channel_timeout; a None is left out.
SerializeRollupConfig(c) ==
    LET present == {k \in RollupConfigOptionKeys : c[k] # None}
    IN  [k \in {"genesis", "channel_timeout"} \cup RollupConfigPlainKeys \cup present |->
            IF k = "genesis" THEN SerializeGenesis(c.genesis)
            ELSE IF k = "channel_timeout" THEN c.channel_timeout_bedrock
            ELSE IF k \in present THEN Unwrap(c[k])
            ELSE c[k]]

(***************************************************************************)
(* run_op_program.rs: ProgramStats, CannonDebug and the debug-output file. *)
(***************************************************************************)
\* ProgramStats::default().
ProgramStatsDefault ==
    [runtime |-> 0,
     pages |-> None,
     memory_used |-> None,
     num_preimage_requests |-> None,
     total_preimage_size |-> None]

ProgramStatsOptionKeys ==
    {"pages", "memory_used", "num_preimage_requests", "total_preimage_size"}

\* Serialize for ProgramStats: a None field is left out.
SerializeProgramStats(st) ==
    LET present == {k \in ProgramStatsOptionKeys : st[k] # None}
    IN  [k \in {"runtime"} \cup present |->
            IF k = "runtime" THEN st.runtime ELSE Unwrap(st[k])]

\* The hex digits of the largest u64 (0xffffffffffffffff).
U64HexDigits == 16

DigitValue(ch) == (CHOOSE i \in 1..16 : HexDigits[i] = ch) - 1

IsDigit(ch, radix) == \E i \in 1..radix : HexDigits[i] = ch

RECURSIVE ParseRadix(_, _)
\* The value of a sequence of digits, most significant first.
ParseRadix(chars, radix) ==
    IF chars = <<>> THEN 0
    ELSE ParseRadix(SubSeq(chars, 1, Len(chars) - 1), radix) * radix
         + DigitValue(chars[Len(chars)])

\* ParseU64 reading the digits after 0x as decimal digits.
ParseU64_decimal(chars) ==
    LET hex == Len(chars) >= 2 /\ chars[1] = "0" /\ chars[2] = "x"
        digits == IF hex THEN SubSeq(chars, 3, Len(chars)) ELSE chars
    IN  IF digits = <<>> \/ \E i \in 1..Len(digits) : ~IsDigit(digits[i], 10)
        THEN None
        ELSE Some(ParseRadix(digits, 10))

\* Deserialize for U64 from a JSON string, given as its characters: hex after
\* the prefix 0x, decimal without it; {} when it is no number or a hex
\* quantity of more than 64 bits.
ParseU64(chars) ==
    LET hex == Len(chars) >= 2 /\ chars[1] = "0" /\ chars[2] = "x"
        digits == IF hex THEN SubSeq(chars, 3, Len(chars)) ELSE chars
        radix == IF hex THEN 16 ELSE 10
    IN  IF digits = <<>> \/ \E i \in 1..Len(digits) : ~IsDigit(digits[i], radix)
        THEN None
        ELSE IF hex /\ Len(digits) > U64HexDigits THEN None
        ELSE Some(ParseRadix(digits, radix))

\* The field names derive(Deserialize) gives CannonDebug: no rename.
CannonDebugKeys ==
    {"pages", "memory_used", "num_preimage_requests", "total_preimage_size"}

\* serde_json::from_str::<CannonDebug>: {} on an error. A text is
\* [json |-> whether it is a JSON object, object |-> the object's members];
\* a member that is no field is ignored, a missing field is an error.
ParseCannonDebug(text) ==
    IF ~text.json \/ ~(CannonDebugKeys \subseteq DOMAIN text.object) THEN None
    ELSE IF ParseU64(text.object["memory_used"]) = None THEN None
    ELSE Some([pages |-> text.object["pages"],
               memory_used |-> Unwrap(ParseU64(text.object["memory_used"])),
               num_preimage_requests |-> text.object["num_preimage_requests"],
               total_preimage_size |-> text.object["total_preimage_size"]])

\* The debug-output texts the emulator may leave.
DebugSnake ==
    [json |-> TRUE,
     object |-> [pages |-> 10,
                 memory_used |-> <<"0", "x", "4", "0", "0">>,
                 num_preimage_requests |-> 2,
                 total_preimage_size |-> 64]]

DebugCamel ==
    [json |-> TRUE,
     object |-> [pages |-> 10,
                 memoryUsed |-> <<"0", "x", "4", "0", "0">>,
                 numPreimageRequests |-> 2,
                 totalPreimageSize |-> 64]]

DebugTruncated == [json |-> FALSE, object |-> [pages |-> 10]]

DebugTexts == {DebugSnake, DebugCamel, DebugTruncated}

(***************************************************************************)
(* The argument vectors.                                                   *)
(***************************************************************************)
\* OpProgramCommand::args without the match on the chain definition.
OpProgramArgs_novariant(fixture) ==
    LET inputs == fixture.inputs
    IN  <<"--l1.head", encode_hex_with_prefix(inputs.l1_head),
          "--l2.head", encode_hex_with_prefix(inputs.l2_head),
          "--l2.outputroot", encode_hex_with_prefix(inputs.l2_output_root),
          "--l2.blocknumber", to_string(inputs.l2_block_number),
          "--l2.claim", encode_hex_with_prefix(inputs.l2_claim),
          "--log.format", "terminal",
          "--datadir", data_dir>>

\* OpProgramCommand::args with the L2 claim pushed before the L2 block number.
OpProgramArgs_reordered(fixture) ==
    LET inputs == fixture.inputs
        cd == inputs.chain_definition
        args == <<"--l1.head", encode_hex_with_prefix(inputs.l1_head),
                  "--l2.head", encode_hex_with_prefix(inputs.l2_head),
                  "--l2.outputroot", encode_hex_with_prefix(inputs.l2_output_root),
                  "--l2.claim", encode_hex_with_prefix(inputs.l2_claim),
                  "--l2.blocknumber", to_string(inputs.l2_block_number),
                  "--log.format", "terminal",
                  "--datadir", data_dir>>
    IN  IF cd.tag = "Named"
        THEN args \o <<"--network", cd.name>>
        ELSE args \o <<"--l2.genesis", PathJoin(data_dir, "genesis.json"),
                       "--rollup.config", PathJoin(data_dir, "rollup_config.json")>>

\* OpProgramCommand::args.
OpProgramArgs(fixture) ==
    LET inputs == fixture.inputs
        cd == inputs.chain_definition
        args == <<"--l1.head", encode_hex_with_prefix(inputs.l1_head),
                  "--l2.head", encode_hex_with_prefix(inputs.l2_head),
                  "--l2.outputroot", encode_hex_with_prefix(inputs.l2_output_root),
                  "--l2.blocknumber", to_string(inputs.l2_block_number),
                  "--l2.claim", encode_hex_with_prefix(inputs.l2_claim),
                  "--log.format", "terminal",
                  "--datadir", data_dir>>
    IN  IF cd.tag = "Named"
        THEN args \o <<"--network", cd.name>>
        ELSE args \o <<"--l2.genesis", PathJoin(data_dir, "genesis.json"),
                       "--rollup.config", PathJoin(data_dir, "rollup_config.json")>>

\* CannonCommand::args with --server pushed before the nested command line.
CannonArgs_serverfirst(cmd) ==
    <<"run",
      "--info-at", "%10000000",
      "--proof-at", "=100000000000",
      "--stop-at", "=200000000000",
      "--snapshot-at", "%10000000000",
      "--input", cmd.state,
      "--meta", cmd.meta,
      "--debug-info", cmd.debug,
      "--server",
      "--", cmd.op_program>>
    \o OpProgramArgs(cmd.fixture)

\* CannonCommand::args, for the command
\* [cannon, state, meta, debug, op_program, fixture].
CannonArgs(cmd) ==
    <<"run",
      "--info-at", "%10000000",
      "--proof-at", "=100000000000",
      "--stop-at", "=200000000000",
      "--snapshot-at", "%10000000000",
      "--input", cmd.state,
      "--meta", cmd.meta,
      "--debug-info", cmd.debug,
      "--", cmd.op_program>>
    \o OpProgramArgs(cmd.fixture)
    \o <<"--server">>

(***************************************************************************)
(* The state.                                                              *)
(***************************************************************************)
VARIABLES
    dataDir,    \* the scratch directory: [exists, files: name -> content]
    debugFile,  \* Option: the text of the file at debug_path
    run,        \* each invocation of RunOpProgram::run, by process
    derivation, \* a DerivationFixture on its way through serde_json
    conversion  \* a rollup configuration on its way through From and Into

vars == <<dataDir, debugFile, run, derivation, conversion>>

Procs == {"r1", "r2"}
\* The processes that run one invocation after another.
SeqProcs == {"r1"}

NoFiles == [n \in {} |-> <<>>]
NoDir == [exists |-> FALSE, files |-> NoFiles]

\* The directory with the file written (created or replaced).
WriteFile(dir, name, content) ==
    [dir EXCEPT !.files = [n \in DOMAIN dir.files \cup {name} |->
                              IF n = name THEN content ELSE dir.files[n]]]

\* The exit codes of a child process.
ExitCodes == {0, 1}
\* The wall-clock times of a child process, in milliseconds.
Runtimes == {5}

\* The RunOpProgram structs (the parsed command line) of the model.
RunOpPrograms ==
    {[op_program |-> "/bin/op-program",
      fixture |-> f,
      cannon |-> o.cannon,
      cannon_state |-> o.cannon_state,
      cannon_meta |-> o.cannon_meta,
      output |-> o.output] :
        f \in FixtureFiles,
        o \in {[cannon |-> None, cannon_state |-> None, cannon_meta |-> None,
                output |-> None],
               [cannon |-> None, cannon_state |-> None, cannon_meta |-> None,
                output |-> Some("/out/stats.json")],
               [cannon |-> Some("/bin/cannon"), cannon_state |-> Some("/in/state.json"),
                cannon_meta |-> Some("/in/meta.json"), output |-> None],
               [cannon |-> Some("/bin/cannon"), cannon_state |-> Some("/in/state.json"),
                cannon_meta |-> Some("/in/meta.json"), output |-> Some("/out/stats.json")],
               [cannon |-> Some("/bin/cannon"), cannon_state |-> Some("/in/state.json"),
                cannon_meta |-> None, output |-> None],
               [cannon |-> Some("/bin/cannon"), cannon_state |-> None,
                cannon_meta |-> Some("/in/meta.json"), output |-> None]}}

\* No DerivationFixture is being read (run-op-program reads none).
NoDerivation == [pc |-> "none", fixture |-> None, json |-> None, parsed |-> None]

\* No rollup configuration is being converted.
NoConversion == [pc |-> "none", upstream |-> None, local |-> None, back |-> None]

NoResult == [kind |-> "none", err |-> "", stats |-> None]

\* A process that is not inside RunOpProgram::run.
IdleRun ==
    [pc |-> "idle",
     self |-> [op_program |-> "", fixture |-> [state |-> "missing", fixture |-> None],
               cannon |-> None, cannon_state |-> None, cannon_meta |-> None,
               output |-> None],
     fixture |-> None,      \* OpProgramCommand.fixture, once parsed
     todo |-> {},           \* the witness keys still to be written
     spawned |-> <<>>,      \* the child processes spawned: [program, args]
     status |-> None,       \* the child's exit status
     runtime |-> 0,         \* start.elapsed().as_millis()
     stats |-> None,        \* the ProgramStats built
     ret |-> NoResult,      \* what OpProgramCommand::run / CannonCommand::run returned
     outcome |-> "none",    \* of RunOpProgram::run: Ok, Err or panic
     err |-> "",
     output_file |-> None,  \* the text of the file at self.output
     found_dir |-> FALSE,   \* data_dir.exists() in OpProgramCommand::new
     written |-> {},        \* the files of data_dir this run created
     debug_written |-> None,\* the debug-output text this run's child wrote
     created |-> 0,         \* create_dir calls that succeeded
     cleanup_calls |-> 0,   \* cleanup() calls
     cleanups |-> 0]        \* cleanup() calls that removed the directory

Init ==
    /\ dataDir \in {NoDir,
                    [exists |-> TRUE, files |-> WriteFile(NoDir, "stale.txt", <<"00">>).files]}
    /\ debugFile = None
    /\ run = [p \in Procs |-> IdleRun]
    /\ derivation = NoDerivation
    /\ conversion = NoConversion

Set(p, r) == run' = [run EXCEPT ![p] = r]

\* A panic unwinds out of RunOpProgram::run.
Panic(r, msg) == [r EXCEPT !.pc = "done", !.outcome = "panic", !.err = msg]

\* The orchestration call returns Err and `?` returns it from RunOpProgram::run.
ReturnErr(r, msg) ==
    [r EXCEPT !.pc = "done", !.outcome = "Err", !.err = msg,
              !.ret = [kind |-> "Err", err |-> msg, stats |-> None]]

(***************************************************************************)
(* OpProgramCommand::new, one filesystem operation per action.  A          *)
(* filesystem operation may fail for reasons outside the program (io)      *)
(* and fails when the directory it needs is not there.                     *)
(***************************************************************************)
\* AfterCreate without the `if let`: the config files are never written.
AfterCreate_skip(fixture) == "new_witness"

\* The next step of OpProgramCommand::new once the directory is there: the
\* `if let ChainDefinition::Unnamed` of the config files.
AfterCreate(fixture) ==
    IF fixture.inputs.chain_definition.tag = "Unnamed"
    THEN "new_genesis" ELSE "new_witness"

\* FreshDataDir as create_dir_all alone would leave it: the files stay.
FreshDataDir_keep(dir) == [exists |-> TRUE, files |-> dir.files]

\* The directory that remove_dir_all (if one was there) and create_dir leave.
FreshDataDir(dir) == [exists |-> TRUE, files |-> NoFiles]

\* RunOpProgram::run is entered with a struct `self` of selves, and
\* OpProgramCommand::new runs up to the directory being there: the fixture
\* file is read and parsed, then
\* if data_dir.exists() { remove_dir_all(&data_dir).unwrap() } and
\* create_dir(&data_dir).unwrap(). Each failure is an unwrap.
EnterNewWith(p, selves) ==
    /\ run[p].pc = "idle"
    /\ \E self \in selves, io \in {"ok", "remove fails", "create fails"} :
         LET r == [IdleRun EXCEPT !.self = self]
             loaded == [r EXCEPT !.fixture = self.fixture.fixture,
                                 !.found_dir = dataDir.exists]
         IN  CASE self.fixture.state = "missing" ->
                    /\ UNCHANGED dataDir
                    /\ Set(p, Panic(r, "Failed to read fixture file"))
               [] self.fixture.state = "malformed" ->
                    /\ UNCHANGED dataDir
                    /\ Set(p, Panic(r, "Failed to parse fixture file"))
               [] self.fixture.state = "ok" /\ io = "remove fails" ->
                    /\ dataDir.exists
                    /\ UNCHANGED dataDir
                    /\ Set(p, Panic(loaded, "remove_dir_all"))
               [] self.fixture.state = "ok" /\ io = "create fails" ->
                    /\ dataDir' = NoDir
                    /\ Set(p, Panic(loaded, "create_dir"))
               [] OTHER ->
                    /\ dataDir' = FreshDataDir(dataDir)
                    /\ Set(p, [loaded EXCEPT
                                  !.pc = AfterCreate(Unwrap(self.fixture.fixture)),
                                  !.todo = DOMAIN Unwrap(self.fixture.fixture).witness_data,
                                  !.created = @ + 1])
    /\ UNCHANGED <<debugFile, derivation, conversion>>

\* RunOpProgram::run is entered with any struct of the model.
EnterNew(p) == EnterNewWith(p, RunOpPrograms)

\* The run with one more file of the directory written by it.
Wrote(r, name) == [r EXCEPT !.written = @ \cup {name}]

\* File::create(genesis.json).unwrap(); to_writer_pretty(file, &genesis).unwrap()
WriteGenesis(p) ==
    /\ run[p].pc = "new_genesis"
    /\ LET cd == Unwrap(run[p].fixture).inputs.chain_definition
       IN  \E io \in {"ok", "create fails", "write fails"} :
             IF io = "create fails" \/ ~dataDir.exists
             THEN /\ UNCHANGED dataDir
                  /\ Set(p, Panic(run[p], "File::create genesis.json"))
             ELSE IF io = "write fails"
             THEN /\ dataDir' = WriteFile(dataDir, "genesis.json", <<>>)
                  /\ Set(p, Panic(Wrote(run[p], "genesis.json"),
                                  "to_writer_pretty genesis.json"))
             ELSE /\ dataDir' = WriteFile(dataDir, "genesis.json", <<cd.genesis>>)
                  /\ Set(p, [Wrote(run[p], "genesis.json") EXCEPT !.pc = "new_rollup"])
    /\ UNCHANGED <<debugFile, derivation, conversion>>

\* File::create(rollup_config.json).unwrap(); rollup_config.into() (which
\* unwraps the system config); to_writer_pretty(file, &cfg).unwrap()
WriteRollupConfig(p) ==
    /\ run[p].pc = "new_rollup"
    /\ LET cd == Unwrap(run[p].fixture).inputs.chain_definition
       IN  \E io \in {"ok", "create fails", "write fails"} :
             IF io = "create fails" \/ ~dataDir.exists
             THEN /\ UNCHANGED dataDir
                  /\ Set(p, Panic(run[p], "File::create rollup_config.json"))
             ELSE IF cd.rollup_config.genesis.system_config = None
             THEN /\ dataDir' = WriteFile(dataDir, "rollup_config.json", <<>>)
                  /\ Set(p, Panic(Wrote(run[p], "rollup_config.json"),
                                  "unwrap system_config"))
             ELSE IF io = "write fails"
             THEN /\ dataDir' = WriteFile(dataDir, "rollup_config.json", <<>>)
                  /\ Set(p, Panic(Wrote(run[p], "rollup_config.json"),
                                  "to_writer_pretty rollup_config.json"))
             ELSE /\ dataDir' = WriteFile(dataDir, "rollup_config.json",
                         <<SerializeRollupConfig(RollupConfigFrom(cd.rollup_config))>>)
                  /\ Set(p, [Wrote(run[p], "rollup_config.json") EXCEPT
                                !.pc = "new_witness"])
    /\ UNCHANGED <<debugFile, derivation, conversion>>

\* WitnessFileName with the key left out of the name.
WitnessFileName_fixed(key) == "0x" \o ".txt"

\* The name and the text of the file of one witness_data entry.
WitnessFileName(key) == encode_hex_with_prefix(key) \o ".txt"
WitnessFileText(value) == <<encode_hex(value)>>

\* One iteration of `for (key, value) in &fixture.witness_data`:
\* std::fs::write(file, value.encode_hex()).unwrap(). The map's order is any.
WriteWitness(p) ==
    /\ run[p].pc = "new_witness"
    /\ \E key \in run[p].todo :
         LET value == Unwrap(run[p].fixture).witness_data[key]
         IN  \E io \in {"ok", "create fails", "write fails"} :
               IF io = "create fails" \/ ~dataDir.exists
               THEN /\ UNCHANGED dataDir
                    /\ Set(p, Panic(run[p], "std::fs::write create"))
               ELSE IF io = "write fails"
               THEN /\ dataDir' = WriteFile(dataDir, WitnessFileName(key), <<>>)
                    /\ Set(p, Panic(Wrote(run[p], WitnessFileName(key)),
                                    "std::fs::write"))
               ELSE /\ dataDir' = WriteFile(dataDir, WitnessFileName(key),
                                            WitnessFileText(value))
                    /\ Set(p, [Wrote(run[p], WitnessFileName(key)) EXCEPT
                                  !.todo = @ \ {key}])
    /\ UNCHANGED <<debugFile, derivation, conversion>>

\* Dispatch as it would be if OpProgramCommand::new returned before the
\* loop over witness_data was over.
Dispatch_early(p) ==
    /\ run[p].pc = "new_witness"
    /\ LET self == run[p].self
       IN  Set(p, IF self.cannon = None
                  THEN [run[p] EXCEPT !.pc = "op_spawn"]
                  ELSE IF self.cannon_state = None \/ self.cannon_meta = None
                  THEN Panic(run[p], "called Option::unwrap() on a None value")
                  ELSE [run[p] EXCEPT !.pc = "cannon_spawn"])
    /\ UNCHANGED <<dataDir, debugFile, derivation, conversion>>

\* OpProgramCommand::new returns Self; RunOpProgram::run matches on
\* self.cannon, and CannonCommand::new is given the unwrapped state and meta.
Dispatch(p) ==
    /\ run[p].pc = "new_witness"
    /\ run[p].todo = {}
    /\ LET self == run[p].self
       IN  Set(p, IF self.cannon = None
                  THEN [run[p] EXCEPT !.pc = "op_spawn"]
                  ELSE IF self.cannon_state = None \/ self.cannon_meta = None
                  THEN Panic(run[p], "called Option::unwrap() on a None value")
                  ELSE [run[p] EXCEPT !.pc = "cannon_spawn"])
    /\ UNCHANGED <<dataDir, debugFile, derivation, conversion>>

(***************************************************************************)
(* OpProgramCommand::run and CannonCommand::run.                           *)
(***************************************************************************)
\* SpawnChild with one retry: the child is spawned a second time.
SpawnChild_retry(r, program, args, msg, next, io) ==
    IF io = "ok"
    THEN [r EXCEPT !.spawned = Append(Append(@, [program |-> program, args |-> args]),
                                      [program |-> program, args |-> args]),
                   !.pc = next]
    ELSE ReturnErr(r, msg)

\* Command::new(program).args(args).status(), up to the child running; an
\* Err of status() is returned as an Err at once.
SpawnChild(r, program, args, msg, next, io) ==
    IF io = "ok"
    THEN [r EXCEPT !.spawned = Append(@, [program |-> program, args |-> args]),
                   !.pc = next]
    ELSE ReturnErr(r, msg)

\* OpProgramCommand::run: the op-program binary is spawned.
OpProgramSpawn(p) ==
    /\ run[p].pc = "op_spawn"
    /\ \E io \in {"ok", "fails"} :
         Set(p, SpawnChild(run[p], run[p].self.op_program,
                           OpProgramArgs(Unwrap(run[p].fixture)),
                           "Failed to execute op-program binary", "op_wait", io))
    /\ UNCHANGED <<dataDir, debugFile, derivation, conversion>>

\* The op-program child exits, with any status; status() returns Ok(status)
\* and the elapsed time is taken.
OpProgramExit(p) ==
    /\ run[p].pc = "op_wait"
    /\ \E code \in ExitCodes, ms \in Runtimes :
         Set(p, [run[p] EXCEPT !.status = Some(code), !.runtime = ms,
                               !.pc = "op_cleanup"])
    /\ UNCHANGED <<dataDir, debugFile, derivation, conversion>>

\* OpProgramCommand::cleanup: remove_dir_all(&self.data_dir), an Err mapped
\* to "Failed to remove data dir". TRUE when the directory was removed.
CleanupRemoves(io) == io = "ok" /\ dataDir.exists

\* The ProgramStats of OpProgramCommand::run.
OpProgramStats(runtime) == [ProgramStatsDefault EXCEPT !.runtime = runtime]

\* self.cleanup()?; Ok(ProgramStats { runtime, ..ProgramStats::default() })
OpProgramCleanup(p) ==
    /\ run[p].pc = "op_cleanup"
    /\ \E io \in {"ok", "fails"} :
         IF CleanupRemoves(io)
         THEN /\ dataDir' = NoDir
              /\ LET stats == OpProgramStats(run[p].runtime)
                 IN  Set(p, [run[p] EXCEPT
                               !.cleanup_calls = @ + 1,
                               !.cleanups = @ + 1,
                               !.stats = Some(stats),
                               !.ret = [kind |-> "Ok", err |-> "", stats |-> Some(stats)],
                               !.pc = "output"])
         ELSE /\ UNCHANGED dataDir
              /\ Set(p, ReturnErr([run[p] EXCEPT !.cleanup_calls = @ + 1],
                                   "Failed to remove data dir"))
    /\ UNCHANGED <<debugFile, derivation, conversion>>

\* The CannonCommand built by CannonCommand::new.
CannonCommandOf(r) ==
    [cannon |-> Unwrap(r.self.cannon),
     state |-> Unwrap(r.self.cannon_state),
     meta |-> Unwrap(r.self.cannon_meta),
     debug |-> debug_path,
     op_program |-> r.self.op_program,
     fixture |-> Unwrap(r.fixture)]

\* CannonCommand::run: the cannon binary is spawned.
CannonSpawn(p) ==
    /\ run[p].pc = "cannon_spawn"
    /\ \E io \in {"ok", "fails"} :
         Set(p, SpawnChild(run[p], Unwrap(run[p].self.cannon),
                           CannonArgs(CannonCommandOf(run[p])),
                           "Failed to execute cannon binary", "cannon_wait", io))
    /\ UNCHANGED <<dataDir, debugFile, derivation, conversion>>

\* The cannon child exits, with any status, having written a debug-output
\* file at debug_path or not.
CannonExit(p) ==
    /\ run[p].pc = "cannon_wait"
    /\ \E code \in ExitCodes, ms \in Runtimes,
          text \in {None} \cup {Some(t) : t \in DebugTexts} :
         /\ Set(p, [run[p] EXCEPT !.status = Some(code), !.runtime = ms,
                                  !.debug_written = text,
                                  !.pc = "cannon_collect"])
         /\ debugFile' = IF text = None THEN debugFile ELSE text
    /\ UNCHANGED <<dataDir, derivation, conversion>>

\* CannonStats with the page count left out.
CannonStats_nopages(runtime, debug_output) ==
    [runtime |-> runtime,
     pages |-> None,
     memory_used |-> Some(debug_output.memory_used),
     num_preimage_requests |-> Some(debug_output.num_preimage_requests),
     total_preimage_size |-> Some(debug_output.total_preimage_size)]

\* The ProgramStats of CannonCommand::run.
CannonStats(runtime, debug_output) ==
    [runtime |-> runtime,
     pages |-> Some(debug_output.pages),
     memory_used |-> Some(debug_output.memory_used),
     num_preimage_requests |-> Some(debug_output.num_preimage_requests),
     total_preimage_size |-> Some(debug_output.total_preimage_size)]

\* read_to_string(&self.debug) (an Err is unwrapped), from_str (an Err is
\* returned by `?`), and the ProgramStats.
CannonCollect(p) ==
    /\ run[p].pc = "cannon_collect"
    /\ \E io \in {"ok", "fails"} :
         Set(p, IF io = "fails" \/ debugFile = None
                THEN Panic(run[p], "Failed to read debug output file")
                ELSE IF ParseCannonDebug(Unwrap(debugFile)) = None
                THEN ReturnErr(run[p], "serde_json::Error")
                ELSE [run[p] EXCEPT
                        !.stats = Some(CannonStats(run[p].runtime,
                                          Unwrap(ParseCannonDebug(Unwrap(debugFile))))),
                        !.pc = "cannon_cleanup"])
    /\ UNCHANGED <<dataDir, debugFile, derivation, conversion>>

\* self.cleanup()?; Ok(stats)
CannonCleanup(p) ==
    /\ run[p].pc = "cannon_cleanup"
    /\ \E io \in {"ok", "fails"} :
         IF CleanupRemoves(io)
         THEN /\ dataDir' = NoDir
              /\ Set(p, [run[p] EXCEPT
                            !.cleanup_calls = @ + 1,
                            !.cleanups = @ + 1,
                            !.ret = [kind |-> "Ok", err |-> "", stats |-> run[p].stats],
                            !.pc = "output"])
         ELSE /\ UNCHANGED dataDir
              /\ Set(p, ReturnErr([run[p] EXCEPT !.cleanup_calls = @ + 1],
                                   "Failed to remove data dir"))
    /\ UNCHANGED <<debugFile, derivation, conversion>>

\* RunOpProgram::run with the stats: if let Some(output) = &self.output,
\* File::create(output).unwrap() and to_writer_pretty(file, &stats).unwrap();
\* then Ok(()).
WriteOutput(p) ==
    /\ run[p].pc = "output"
    /\ LET done == [run[p] EXCEPT !.pc = "done", !.outcome = "Ok"]
       IN  IF run[p].self.output = None
           THEN Set(p, done)
           ELSE \E io \in {"ok", "create fails", "write fails"} :
                  Set(p, CASE io = "create fails" ->
                                Panic(run[p], "File::create output")
                           [] io = "write fails" ->
                                Panic([run[p] EXCEPT !.output_file = Some(<<>>)],
                                      "to_writer_pretty output")
                           [] OTHER ->
                                [done EXCEPT !.output_file =
                                    Some(<<SerializeProgramStats(Unwrap(run[p].ret.stats))>>)])
    /\ UNCHANGED <<dataDir, debugFile, derivation, conversion>>

\* The process that ran RunOpProgram::run ends; what it left in the
\* filesystem stays.
Exit(p) ==
    /\ run[p].pc = "done"
    /\ Set(p, IdleRun)
    /\ UNCHANGED <<dataDir, debugFile, derivation, conversion>>

(***************************************************************************)
(* The specification: invocations of RunOpProgram::run one after another.  *)
(***************************************************************************)
Step(p) ==
    \/ EnterNew(p)
    \/ WriteGenesis(p)
    \/ WriteRollupConfig(p)
    \/ WriteWitness(p)
    \/ Dispatch(p)
    \/ OpProgramSpawn(p)
    \/ OpProgramExit(p)
    \/ OpProgramCleanup(p)
    \/ CannonSpawn(p)
    \/ CannonExit(p)
    \/ CannonCollect(p)
    \/ CannonCleanup(p)
    \/ WriteOutput(p)
    \/ Exit(p)

Next == \E p \in SeqProcs : Step(p)

Spec == Init /\ [][Next]_vars

(***************************************************************************)
(* Two invocations of RunOpProgram::run by two processes of the same       *)
(* machine, their steps interleaved: both have the scratch directory at    *)
(* data_dir and the debug-output file at debug_path.                       *)
(***************************************************************************)
\* The structs of the overlapping invocations: the fixture loads, no output
\* file, direct or emulated with every path given; a named chain with one
\* witness entry, or (direct) an embedded configuration with none.
OverlapRuns ==
    {self \in RunOpPrograms :
        /\ self.fixture.state = "ok"
        /\ self.output = None
        /\ self.cannon # None => self.cannon_state # None /\ self.cannon_meta # None
        /\ LET fixture == Unwrap(self.fixture.fixture)
           IN  \/ /\ fixture.inputs.chain_definition = Named("op-sepolia")
                  /\ Cardinality(DOMAIN fixture.witness_data) = 1
               \/ /\ fixture.inputs.chain_definition = Unnamed(KonaCfgA, GenesisA)
                  /\ self.cannon = None
                  /\ fixture.witness_data = <<>>}

EnterOverlap(p) == EnterNewWith(p, OverlapRuns)

StepOverlap(p) ==
    \/ EnterOverlap(p)
    \/ WriteGenesis(p)
    \/ WriteRollupConfig(p)
    \/ WriteWitness(p)
    \/ Dispatch(p)
    \/ OpProgramSpawn(p)
    \/ OpProgramExit(p)
    \/ OpProgramCleanup(p)
    \/ CannonSpawn(p)
    \/ CannonExit(p)
    \/ CannonCollect(p)
    \/ CannonCleanup(p)
    \/ WriteOutput(p)

InitOverlap ==
    /\ dataDir = NoDir
    /\ debugFile = None
    /\ run = [p \in Procs |-> IdleRun]
    /\ derivation = NoDerivation
    /\ conversion = NoConversion

NextOverlap == \E p \in Procs : StepOverlap(p)

SpecOverlap == InitOverlap /\ [][NextOverlap]_vars

(***************************************************************************)
(* derivation.rs: DerivationFixture and FixtureBlock through serde_json.   *)
(* A JSON object is a function from its member names to its values, a      *)
(* JSON string is the sequence of its characters, a JSON array a sequence. *)
(* The values of the kona and alloy types (RollupConfig, Header,           *)
(* L2PayloadAttributes, SystemConfig, L2BlockInfo) are atoms that their    *)
(* own serde implementations carry through.                                *)
(***************************************************************************)
\* Most L1 blocks of one fixture.
MaxBlocks == 2
\* Largest L2 block number that is a key of a fixture's maps.
MaxBlockNumber == 2

RECURSIVE DecimalChars(_)
\* The decimal digits of n, as serde_json writes an integer map key.
DecimalChars(n) ==
    IF n < 10 THEN <<HexDigits[n + 1]>>
    ELSE Append(DecimalChars(n \div 10), HexDigits[(n % 10) + 1])

\* A u64 map key read from the member name: {} when it is no decimal number
\* (no digits, another character, a leading zero).
ParseMapKey(chars) ==
    IF chars = <<>> \/ \E i \in 1..Len(chars) : ~IsDigit(chars[i], 10) THEN None
    ELSE IF Len(chars) > 1 /\ chars[1] = "0" THEN None
    ELSE Some(ParseRadix(chars, 10))

RECURSIVE HexChars(_)
\* Serialize for Bytes: the characters of the hex digits, after 0x.
HexChars(bytes) ==
    IF bytes = <<>> THEN <<>>
    ELSE <<HexDigits[(Head(bytes) \div 16) + 1], HexDigits[(Head(bytes) % 16) + 1]>>
         \o HexChars(Tail(bytes))

SerializeBytes(bytes) == <<"0", "x">> \o HexChars(bytes)

RECURSIVE ParseHexBytes(_)
\* The bytes of an even number of hex digits.
ParseHexBytes(chars) ==
    IF chars = <<>> THEN <<>>
    ELSE <<ParseRadix(SubSeq(chars, 1, 2), 16)>> \o ParseHexBytes(SubSeq(chars, 3, Len(chars)))

\* Deserialize for Bytes: {} when the string is no hex string.
DeserializeBytes(chars) ==
    LET prefixed == Len(chars) >= 2 /\ chars[1] = "0" /\ chars[2] = "x"
        digits == IF prefixed THEN SubSeq(chars, 3, Len(chars)) ELSE chars
    IN  IF Len(digits) % 2 # 0 \/ \E i \in 1..Len(digits) : ~IsDigit(digits[i], 16)
        THEN None
        ELSE Some(ParseHexBytes(digits))

\* Serialize for HashMap<u64, V>: an object with the keys in decimal.
SerializeMap(map) ==
    [k \in {DecimalChars(n) : n \in DOMAIN map} |-> map[Unwrap(ParseMapKey(k))]]

\* Deserialize for HashMap<u64, V>: {} when a member name is no u64.
DeserializeMap(object) ==
    IF \E k \in DOMAIN object : ParseMapKey(k) = None THEN None
    ELSE Some([n \in {Unwrap(ParseMapKey(k)) : k \in DOMAIN object} |->
                 object[CHOOSE k \in DOMAIN object : ParseMapKey(k) = Some(n)]])

\* Serialize for FixtureBlock (rename_all = "camelCase": the names are the
\* same).
SerializeFixtureBlock(b) ==
    [header |-> b.header,
     transactions |-> [i \in DOMAIN b.transactions |-> SerializeBytes(b.transactions[i])],
     blobs |-> b.blobs,
     receipts |-> b.receipts]

FixtureBlockKeys == {"header", "transactions", "blobs", "receipts"}

\* Deserialize for FixtureBlock: every field is required.
DeserializeFixtureBlock(object) ==
    IF ~(FixtureBlockKeys \subseteq DOMAIN object) THEN None
    ELSE IF \E i \in DOMAIN object["transactions"] :
                DeserializeBytes(object["transactions"][i]) = None THEN None
    ELSE Some([header |-> object["header"],
               transactions |-> [i \in DOMAIN object["transactions"] |->
                                   Unwrap(DeserializeBytes(object["transactions"][i]))],
               blobs |-> object["blobs"],
               receipts |-> object["receipts"]])

\* Serialize for DerivationFixture: rename_all = "camelCase".
SerializeDerivationFixture(f) ==
    [rollupConfig |-> f.rollup_config,
     l1Blocks |-> [i \in DOMAIN f.l1_blocks |-> SerializeFixtureBlock(f.l1_blocks[i])],
     l2Payloads |-> SerializeMap(f.l2_payloads),
     refPayloads |-> SerializeMap(f.ref_payloads),
     l2SystemConfigs |-> SerializeMap(f.l2_system_configs),
     l2BlockInfos |-> SerializeMap(f.l2_block_infos),
     l2CursorStart |-> f.l2_cursor_start,
     l2CursorEnd |-> f.l2_cursor_end]

DerivationFixtureKeys ==
    {"rollupConfig", "l1Blocks", "l2Payloads", "refPayloads", "l2SystemConfigs",
     "l2BlockInfos", "l2CursorStart", "l2CursorEnd"}

DerivationFixtureMaps == {"l2Payloads", "refPayloads", "l2SystemConfigs", "l2BlockInfos"}

\* DeserializeDerivationFixture with refPayloads read into l2_payloads and
\* l2Payloads into ref_payloads.
DeserializeDerivationFixture_swapped(object) ==
    IF ~(DerivationFixtureKeys \subseteq DOMAIN object) THEN None
    ELSE IF \E i \in DOMAIN object["l1Blocks"] :
                DeserializeFixtureBlock(object["l1Blocks"][i]) = None THEN None
    ELSE IF \E k \in DerivationFixtureMaps : DeserializeMap(object[k]) = None THEN None
    ELSE Some([rollup_config |-> object["rollupConfig"],
               l1_blocks |-> [i \in DOMAIN object["l1Blocks"] |->
                                Unwrap(DeserializeFixtureBlock(object["l1Blocks"][i]))],
               l2_payloads |-> Unwrap(DeserializeMap(object["refPayloads"])),
               ref_payloads |-> Unwrap(DeserializeMap(object["l2Payloads"])),
               l2_system_configs |-> Unwrap(DeserializeMap(object["l2SystemConfigs"])),
               l2_block_infos |-> Unwrap(DeserializeMap(object["l2BlockInfos"])),
               l2_cursor_start |-> object["l2CursorStart"],
               l2_cursor_end |-> object["l2CursorEnd"]])

\* serde_json::from_str::<DerivationFixture>: {} on an error. Every field is
\* required; a member that is no field is ignored.
DeserializeDerivationFixture(object) ==
    IF ~(DerivationFixtureKeys \subseteq DOMAIN object) THEN None
    ELSE IF \E i \in DOMAIN object["l1Blocks"] :
                DeserializeFixtureBlock(object["l1Blocks"][i]) = None THEN None
    ELSE IF \E k \in DerivationFixtureMaps : DeserializeMap(object[k]) = None THEN None
    ELSE Some([rollup_config |-> object["rollupConfig"],
               l1_blocks |-> [i \in DOMAIN object["l1Blocks"] |->
                                Unwrap(DeserializeFixtureBlock(object["l1Blocks"][i]))],
               l2_payloads |-> Unwrap(DeserializeMap(object["l2Payloads"])),
               ref_payloads |-> Unwrap(DeserializeMap(object["refPayloads"])),
               l2_system_configs |-> Unwrap(DeserializeMap(object["l2SystemConfigs"])),
               l2_block_infos |-> Unwrap(DeserializeMap(object["l2BlockInfos"])),
               l2_cursor_start |-> object["l2CursorStart"],
               l2_cursor_end |-> object["l2CursorEnd"]])

\* Two fixture blocks, after ref_blocks(): a header, raw transactions, no
\* blobs, receipts.
FixtureBlocks ==
    {[header |-> [number |-> 1, parent_hash |-> <<170>>, timestamp |-> 102],
      transactions |-> <<<<2, 248>>>>,
      blobs |-> <<>>,
      receipts |-> <<"receipt">>],
     [header |-> [number |-> 2, parent_hash |-> <<187>>, timestamp |-> 104],
      transactions |-> <<<<2>>, <<>>>>,
      blobs |-> <<>>,
      receipts |-> <<>>]}

RECURSIVE SeqsUpTo(_, _)
\* The sequences over a set of at most n elements.
SeqsUpTo(S, n) ==
    IF n = 0 THEN {<<>>}
    ELSE LET shorter == SeqsUpTo(S, n - 1)
         IN  shorter \cup {Append(s, x) : s \in {t \in shorter : Len(t) = n - 1}, x \in S}

\* The maps from some L2 block numbers to values of V.
BlockMaps(numbers, V) == UNION {[d -> V] : d \in SUBSET numbers}

\* The DerivationFixture values of the model.
DerivationFixtures ==
    {[rollup_config |-> "RollupConfig::default()",
      l1_blocks |-> blocks,
      l2_payloads |-> payloads,
      ref_payloads |-> refs,
      l2_system_configs |-> configs,
      l2_block_infos |-> infos,
      l2_cursor_start |-> 1,
      l2_cursor_end |-> 3] :
        blocks \in SeqsUpTo(FixtureBlocks, MaxBlocks),
        payloads \in BlockMaps(1..MaxBlockNumber, {"attributes"}),
        refs \in BlockMaps({10}, {"attributes", "reference"}),
        configs \in BlockMaps({1}, {"system config"}),
        infos \in BlockMaps({MaxBlockNumber + 1}, {"block info"})}

\* The object without one of its members.
WithoutMember(object, name) == [k \in DOMAIN object \ {name} |-> object[k]]

\* The JSON text of a fixture is written: to_string(&fixture).
WriteFixture ==
    /\ derivation.pc = "fixture"
    /\ derivation' = [derivation EXCEPT
                        !.pc = "json",
                        !.json = Some(SerializeDerivationFixture(Unwrap(derivation.fixture)))]
    /\ UNCHANGED <<dataDir, debugFile, run, conversion>>

\* The JSON text loses one of its members before it is read.
DropMember ==
    /\ derivation.pc = "json"
    /\ \E name \in DerivationFixtureKeys :
         derivation' = [derivation EXCEPT
                          !.pc = "edited",
                          !.json = Some(WithoutMember(Unwrap(derivation.json), name))]
    /\ UNCHANGED <<dataDir, debugFile, run, conversion>>

\* serde_json::from_str::<DerivationFixture>(fixture_str)
ReadFixture ==
    /\ derivation.pc \in {"json", "edited"}
    /\ derivation' = [derivation EXCEPT
                        !.pc = IF derivation.pc = "json" THEN "read" ELSE "read edited",
                        !.parsed = DeserializeDerivationFixture(Unwrap(derivation.json))]
    /\ UNCHANGED <<dataDir, debugFile, run, conversion>>

InitDerivation ==
    /\ dataDir = NoDir
    /\ debugFile = None
    /\ run = [p \in Procs |-> IdleRun]
    /\ \E f \in DerivationFixtures :
         derivation = [pc |-> "fixture", fixture |-> Some(f), json |-> None, parsed |-> None]
    /\ conversion = NoConversion

NextDerivation == WriteFixture \/ DropMember \/ ReadFixture

SpecDerivation == InitDerivation /\ [][NextDerivation]_vars

(***************************************************************************)
(* util.rs: an upstream rollup configuration converted to the local        *)
(* RollupConfig (From) and back (Into).                                    *)
(***************************************************************************)
\* The upstream configurations of the model: KonaCfgA with other timings,
\* chain ids, fork times, addresses and system configs.
UpstreamConfigs ==
    {[KonaCfgA EXCEPT
        !.genesis.system_config = sc,
        !.genesis.l2_time = t.l2_time,
        !.genesis.extra_data = t.extra_data,
        !.channel_timeout = t.channel_timeout,
        !.granite_channel_timeout = t.granite_channel_timeout,
        !.l1_chain_id = id,
        !.granite_time = forks.granite_time,
        !.holocene_time = forks.holocene_time,
        !.fjord_time = forks.fjord_time,
        !.da_challenge_address = da] :
        sc \in {None,
                KonaCfgA.genesis.system_config,
                Some([batcher_address |-> "0xba7d", overhead |-> 0, scalar |-> 65536,
                      gas_limit |-> 60000000, base_fee_scalar |-> None,
                      blob_base_fee_scalar |-> None])},
        t \in {[l2_time |-> 100, extra_data |-> None,
                channel_timeout |-> 300, granite_channel_timeout |-> 50],
               [l2_time |-> 0, extra_data |-> Some(<<1>>),
                channel_timeout |-> 8, granite_channel_timeout |-> 60]},
        id \in {1, 11155111},
        forks \in {[fjord_time |-> Some(40), granite_time |-> None, holocene_time |-> None],
                   [fjord_time |-> Some(40), granite_time |-> Some(50), holocene_time |-> Some(60)],
                   [fjord_time |-> None, granite_time |-> None, holocene_time |-> None]},
        da \in {None, Some("0xda01")}}

\* RollupConfig::from(&cfg); the unwrap of the system config panics on None.
ConvertFrom ==
    /\ conversion.pc = "upstream"
    /\ LET cfg == Unwrap(conversion.upstream)
       IN  conversion' =
               IF cfg.genesis.system_config = None
               THEN [conversion EXCEPT !.pc = "panic"]
               ELSE [conversion EXCEPT !.pc = "local",
                                       !.local = Some(RollupConfigFrom(cfg))]
    /\ UNCHANGED <<dataDir, debugFile, run, derivation>>

\* local.into()
ConvertInto ==
    /\ conversion.pc = "local"
    /\ conversion' = [conversion EXCEPT
                        !.pc = "back",
                        !.back = Some(RollupConfigInto(Unwrap(conversion.local)))]
    /\ UNCHANGED <<dataDir, debugFile, run, derivation>>

InitConversion ==
    /\ dataDir = NoDir
    /\ debugFile = None
    /\ run = [p \in Procs |-> IdleRun]
    /\ derivation = NoDerivation
    /\ \E cfg \in UpstreamConfigs :
         conversion = [pc |-> "upstream", upstream |-> Some(cfg),
                       local |-> None, back |-> None]

NextConversion == ConvertFrom \/ ConvertInto

SpecConversion == InitConversion /\ [][NextConversion]_vars

(***************************************************************************)
(* Properties.                                                             *)
(***************************************************************************)
\* The orchestration call (OpProgramCommand::run or CannonCommand::run) of
\* the run was entered: it spawned, or returned without spawning.
Called(r) == r.spawned # <<>> \/ r.ret.kind # "none"

\* The orchestration call of the run is over: it returned or panicked.
Ended(r) == Called(r) /\ r.pc \in {"output", "done"}

\* The error class of an error the run reports, by its message.
ErrorClass(msg) ==
    CASE msg \in {"Failed to execute op-program binary",
                  "Failed to execute cannon binary"} -> "ProcessExecutionError"
      [] msg = "Failed to remove data dir" -> "IOError"
      [] msg = "serde_json::Error" -> "ParseError"
      [] OTHER -> "panic"

\* OpProgramCommand::new has returned and cleanup has not yet been called.
Materialized(r) ==
    \/ r.pc = "new_witness" /\ r.todo = {}
    \/ r.pc \in {"op_spawn", "op_wait", "op_cleanup",
                 "cannon_spawn", "cannon_wait", "cannon_collect", "cannon_cleanup"}

ChainDefinitionOf(r) == Unwrap(r.fixture).inputs.chain_definition

\* C1: whichever way an orchestration call ends (the child exits, the child
\* cannot be spawned, the debug-output file cannot be read or parsed), the
\* scratch directory has been removed exactly once and does not exist.
C1_ScratchDirRemovedOnEveryPath ==
    \A p \in Procs :
        Ended(run[p]) => ~dataDir.exists /\ run[p].cleanups = 1

\* C2: a child that exits with a non-success status makes the orchestration
\* call return a ProcessExecutionError and no ProgramStats, with the
\* scratch directory removed.
C2_NonSuccessExitIsAnError ==
    \A p \in Procs :
        (/\ run[p].ret.kind # "none"
         /\ run[p].status # None
         /\ Unwrap(run[p].status) # 0)
        => /\ run[p].ret.kind = "Err"
           /\ run[p].ret.stats = None
           /\ ErrorClass(run[p].ret.err) = "ProcessExecutionError"
           /\ ~dataDir.exists

\* C3: when a run in emulated mode (a cannon binary is given) that lacks the
\* state or the metadata path has failed, it has created no scratch
\* directory and spawned no child, and it failed with an error, not with
\* the panic of an unwrap.
C3_MissingEmulatorPathFailsFirst ==
    \A p \in Procs :
        (/\ run[p].pc = "done"
         /\ run[p].self.cannon # None
         /\ (run[p].self.cannon_state = None \/ run[p].self.cannon_meta = None))
        => /\ run[p].created = 0
           /\ run[p].spawned = <<>>
           /\ run[p].err # "called Option::unwrap() on a None value"

ConfigFiles == {"genesis.json", "rollup_config.json"}

\* C4: a run with a Named chain definition never writes genesis.json or
\* rollup_config.json and its scratch directory never holds them; once a run
\* with an Unnamed chain definition has materialized, the scratch directory
\* holds both.
C4_ConfigFilesFollowTheVariant ==
    \A p \in Procs :
        run[p].fixture # None =>
            IF ChainDefinitionOf(run[p]).tag = "Named"
            THEN /\ run[p].written \cap ConfigFiles = {}
                 /\ run[p].created > 0 => DOMAIN dataDir.files \cap ConfigFiles = {}
            ELSE Materialized(run[p]) =>
                    /\ dataDir.exists
                    /\ ConfigFiles \subseteq DOMAIN dataDir.files

\* A run with an Unnamed chain definition has materialized and its child runs.
C4_Witness ==
    \E p \in Procs :
        /\ run[p].pc \in {"op_wait", "cannon_wait"}
        /\ ChainDefinitionOf(run[p]).tag = "Unnamed"
        /\ ConfigFiles \subseteq run[p].written

HasFlag(args, flag) == \E i \in DOMAIN args : args[i] = flag

\* C5: every argument vector a child is spawned with holds --network and
\* neither --l2.genesis nor --rollup.config when the chain definition is
\* Named, and both --l2.genesis and --rollup.config and no --network when it
\* is Unnamed.
C5_FlagsFollowTheVariant ==
    \A p \in Procs : \A i \in DOMAIN run[p].spawned :
        LET args == run[p].spawned[i].args
        IN  IF ChainDefinitionOf(run[p]).tag = "Named"
            THEN /\ HasFlag(args, "--network")
                 /\ ~HasFlag(args, "--l2.genesis")
                 /\ ~HasFlag(args, "--rollup.config")
            ELSE /\ HasFlag(args, "--l2.genesis")
                 /\ HasFlag(args, "--rollup.config")
                 /\ ~HasFlag(args, "--network")

\* Both variants are spawned: here an Unnamed one, directly.
C5_Witness ==
    \E p \in Procs :
        /\ Len(run[p].spawned) = 1
        /\ run[p].self.cannon = None
        /\ ChainDefinitionOf(run[p]).tag = "Unnamed"

\* The files a fixture gives rise to: the two config files of an Unnamed
\* chain definition, and one file per witness_data entry.
DerivedFileNames(fixture) ==
    (IF fixture.inputs.chain_definition.tag = "Unnamed" THEN ConfigFiles ELSE {})
    \cup {"0x" \o encode_hex(key) \o ".txt" : key \in DOMAIN fixture.witness_data}

DerivedFiles(fixture) ==
    [n \in DerivedFileNames(fixture) |->
        IF n = "genesis.json"
        THEN <<fixture.inputs.chain_definition.genesis>>
        ELSE IF n = "rollup_config.json"
        THEN <<SerializeRollupConfig(
                   RollupConfigFrom(fixture.inputs.chain_definition.rollup_config))>>
        ELSE LET key == CHOOSE k \in DOMAIN fixture.witness_data :
                            n = "0x" \o encode_hex(k) \o ".txt"
             IN  <<encode_hex(fixture.witness_data[key])>>]

\* C6: whatever the scratch directory held when the run began, once the run
\* has materialized the directory holds exactly the files derived from the
\* run's fixture: nothing of an earlier run, and the same for the same fixture.
C6_MaterializationIgnoresStaleFiles ==
    \A p \in Procs :
        Materialized(run[p]) =>
            /\ dataDir.exists
            /\ dataDir.files = DerivedFiles(Unwrap(run[p].fixture))

\* A run that found a directory at data_dir has materialized a fixture
\* with witness files.
C6_Witness ==
    \E p \in Procs :
        /\ Materialized(run[p])
        /\ run[p].found_dir
        /\ run[p].written # {}

IsSome(o) == Cardinality(o) = 1

\* C7: the ProgramStats a direct run returns has a runtime and none of
\* pages, memory_used, num_preimage_requests, total_preimage_size; the
\* ProgramStats an emulated run returns has all five.
C7_StatsCompleteness ==
    \A p \in Procs :
        run[p].ret.kind = "Ok" =>
            /\ IsSome(run[p].ret.stats)
            /\ LET st == Unwrap(run[p].ret.stats)
               IN  /\ st.runtime \in Nat
                   /\ IF run[p].self.cannon = None
                      THEN \A k \in ProgramStatsOptionKeys : st[k] = None
                      ELSE \A k \in ProgramStatsOptionKeys : IsSome(st[k])

\* An emulated run has returned its ProgramStats.
C7_Witness ==
    \E p \in Procs :
        /\ run[p].ret.kind = "Ok"
        /\ run[p].self.cannon # None

\* The emulated run's child exited with status 0 having written `text`, the
\* call is over, and neither reading the debug-output file nor removing the
\* scratch directory failed.
CollectedFrom(r, text) ==
    /\ Ended(r)
    /\ r.self.cannon # None
    /\ r.status = Some(0)
    /\ r.debug_written = Some(text)
    /\ r.err \notin {"Failed to read debug output file", "Failed to remove data dir"}

\* The stats are those of the debug-output file of the scenario.
ScenarioStats(r) ==
    /\ r.ret.kind = "Ok"
    /\ IsSome(r.ret.stats)
    /\ LET st == Unwrap(r.ret.stats)
       IN  /\ st.pages = Some(10)
           /\ st.memory_used = Some(1024)
           /\ st.num_preimage_requests = Some(2)
           /\ st.total_preimage_size = Some(64)

\* C8 as stated: an emulator that exits successfully having written
\* {"pages":10,"memoryUsed":"0x400","numPreimageRequests":2,
\* "totalPreimageSize":64} makes the call return pages 10, memory_used 1024,
\* num_preimage_requests 2 and total_preimage_size 64.
C8_DocumentedFormGivesStats ==
    \A p \in Procs : CollectedFrom(run[p], DebugCamel) => ScenarioStats(run[p])

\* C8, amended: an emulator that exits successfully having written
\* {"pages":10,"memory_used":"0x400","num_preimage_requests":2,
\* "total_preimage_size":64} makes the call return pages 10, memory_used
\* 1024, num_preimage_requests 2 and total_preimage_size 64; with the keys
\* memoryUsed, numPreimageRequests and totalPreimageSize the call returns
\* a parse error and no stats.
C8_SnakeCaseFormGivesStats ==
    \A p \in Procs :
        /\ CollectedFrom(run[p], DebugSnake) => ScenarioStats(run[p])
        /\ CollectedFrom(run[p], DebugCamel) =>
              /\ run[p].ret.kind = "Err"
              /\ ErrorClass(run[p].ret.err) = "ParseError"
              /\ run[p].ret.stats = None

\* An emulated run has returned the stats of the snake_case file its child
\* wrote.
C8_Witness ==
    \E p \in Procs :
        /\ CollectedFrom(run[p], DebugSnake)
        /\ run[p].pc = "done"
        /\ run[p].outcome = "Ok"

WitnessFileNames == {WitnessFileName(key) : key \in Keys}

\* C9: a run whose fixture has a witness_data key that is not the content
\* hash of its value writes no witness file.
C9_ContentAddressingIsChecked ==
    \A p \in Procs :
        (/\ run[p].fixture # None
         /\ \E key \in DOMAIN Unwrap(run[p].fixture).witness_data :
                Hash(Unwrap(run[p].fixture).witness_data[key]) # key)
        => run[p].written \cap WitnessFileNames = {}

\* The pairs (flag, value) of an argument vector of even length.
FlagPairs(args) == {<<args[2 * i - 1], args[2 * i]>> : i \in 1..(Len(args) \div 2)}

\* C10: the argument vector op-program is spawned with directly begins with
\* --l1.head, --l2.head, --l2.outputroot, --l2.blocknumber, --l2.claim and
\* --log.format terminal, in this order and each followed by its value; what
\* follows is the pair of --datadir and the pairs of the variant (--network,
\* or --l2.genesis and --rollup.config), each flag followed by its value.
C10_DirectArgumentOrder ==
    \A p \in Procs : \A i \in DOMAIN run[p].spawned :
        run[p].spawned[i].program = run[p].self.op_program =>
            LET args == run[p].spawned[i].args
                named == ChainDefinitionOf(run[p]).tag = "Named"
                rest == SubSeq(args, 13, Len(args))
                variant ==
                    IF named
                    THEN {<<"--network", "op-sepolia">>}
                    ELSE {<<"--l2.genesis", "/tmp/op-program-input/genesis.json">>,
                          <<"--rollup.config", "/tmp/op-program-input/rollup_config.json">>}
            IN  /\ Len(args) >= 12
                /\ SubSeq(args, 1, 12) =
                     <<"--l1.head", "0x11",
                       "--l2.head", "0x22",
                       "--l2.outputroot", "0x33",
                       "--l2.blocknumber", IF named THEN "7" ELSE "120",
                       "--l2.claim", "0xab",
                       "--log.format", "terminal">>
                /\ Len(rest) = 2 * (Cardinality(variant) + 1)
                /\ FlagPairs(rest) = variant \cup {<<"--datadir", "/tmp/op-program-input">>}

\* op-program was spawned directly for an Unnamed chain definition.
C10_Witness ==
    \E p \in Procs :
        /\ Len(run[p].spawned) = 1
        /\ run[p].spawned[1].program = "/bin/op-program"
        /\ ChainDefinitionOf(run[p]).tag = "Unnamed"
        /\ run[p].pc = "op_wait"

\* The leading part of the emulator's argument vector: the subcommand, the
\* four checkpoint-cadence flags and the three file path flags.
CannonLeadingArgs ==
    <<"run",
      "--info-at", "%10000000",
      "--proof-at", "=100000000000",
      "--stop-at", "=200000000000",
      "--snapshot-at", "%10000000000",
      "--input", "/in/state.json",
      "--meta", "/in/meta.json",
      "--debug-info", "/tmp/cannon-debug.json">>

\* C11: the argument vector cannon is spawned with is, in this order, run,
\* --info-at, --proof-at, --stop-at and --snapshot-at with the same values
\* for every fixture, --input, --meta and --debug-info with their paths, the
\* separator --, the op-program path followed by the whole argument vector
\* of a direct run of the same fixture, and --server as the last element.
C11_EmulatedArgumentOrder ==
    \A p \in Procs : \A i \in DOMAIN run[p].spawned :
        run[p].spawned[i].program = "/bin/cannon" =>
            LET args == run[p].spawned[i].args
                direct == OpProgramArgs(Unwrap(run[p].fixture))
                lead == Len(CannonLeadingArgs)
            IN  /\ Len(args) = lead + 2 + Len(direct) + 1
                /\ SubSeq(args, 1, lead) = CannonLeadingArgs
                /\ args[lead + 1] = "--"
                /\ args[lead + 2] = "/bin/op-program"
                /\ SubSeq(args, lead + 3, lead + 2 + Len(direct)) = direct
                /\ args[Len(args)] = "--server"
                /\ \A j \in 1..(Len(args) - 1) : args[j] # "--server"

\* cannon was spawned for a fixture with an Unnamed chain definition.
C11_Witness ==
    \E p \in Procs :
        /\ run[p].pc = "cannon_wait"
        /\ Len(run[p].spawned) = 1
        /\ run[p].spawned[1].program = "/bin/cannon"
        /\ ChainDefinitionOf(run[p]).tag = "Unnamed"
        /\ Len(run[p].spawned[1].args) = 36
        /\ run[p].spawned[1].args[36] = "--server"

\* The run's child exited and the debug-output file could then not be read,
\* or its text could not be parsed.
CollectFailed(r) ==
    /\ r.self.cannon # None
    /\ r.status # None
    /\ r.pc = "done"
    /\ r.err \in {"Failed to read debug output file", "serde_json::Error"}

\* C12: an orchestration call that returned gave either a ProgramStats or an
\* error, never both; and when, in emulated mode, the debug-output file
\* cannot be read or parsed after the child exited, the call returns an
\* error value (an IOError or a ParseError) with no stats, and nothing is
\* written to the output file.
C12_NoPartialResultOnFailure ==
    \A p \in Procs :
        /\ run[p].ret.kind = "Ok" => run[p].ret.stats # None /\ run[p].ret.err = ""
        /\ run[p].ret.kind = "Err" => run[p].ret.stats = None
        /\ CollectFailed(run[p]) =>
              /\ run[p].ret.kind = "Err"
              /\ ErrorClass(run[p].ret.err) \in {"IOError", "ParseError"}
              /\ run[p].ret.stats = None
              /\ run[p].output_file = None

\* C13: reading the camelCase JSON form of a DerivationFixture gives a
\* fixture equal to the one the JSON describes: the same L1 blocks in the
\* same order, the same keys and values in l2_payloads, ref_payloads,
\* l2_system_configs and l2_block_infos, the same two cursors and the same
\* rollup configuration.
C13_DerivationFixtureRead ==
    derivation.pc = "read" =>
        LET f == Unwrap(derivation.fixture)
        IN  /\ derivation.parsed # None
            /\ LET g == Unwrap(derivation.parsed)
               IN  /\ Len(g.l1_blocks) = Len(f.l1_blocks)
                   /\ \A i \in DOMAIN f.l1_blocks : g.l1_blocks[i] = f.l1_blocks[i]
                   /\ \A m \in {"l2_payloads", "ref_payloads", "l2_system_configs",
                                "l2_block_infos"} :
                        /\ DOMAIN g[m] = DOMAIN f[m]
                        /\ \A n \in DOMAIN f[m] : g[m][n] = f[m][n]
                   /\ g.l2_cursor_start = f.l2_cursor_start
                   /\ g.l2_cursor_end = f.l2_cursor_end
                   /\ g.rollup_config = f.rollup_config

\* A fixture with two L1 blocks, a two-digit key and differing l2_payloads
\* and ref_payloads has been read from its JSON text.
C13_Witness ==
    /\ derivation.pc = "read"
    /\ derivation.parsed # None
    /\ Len(Unwrap(derivation.fixture).l1_blocks) = 2
    /\ Unwrap(derivation.fixture).l1_blocks[1] # Unwrap(derivation.fixture).l1_blocks[2]
    /\ DOMAIN Unwrap(derivation.parsed).ref_payloads = {10}
    /\ DOMAIN Unwrap(derivation.parsed).l2_payloads = 1..2

\* The run's statistics have been collected: the elapsed time has been
\* taken and, in emulated mode, the debug-output file has been read into
\* the ProgramStats.
Collected(r) ==
    /\ r.status # None
    /\ r.self.cannon # None => r.stats # None

\* The phases the run has been through came in their order.
PhasesSoFar(r) ==
    /\ r.written # {} => r.created = 1
    /\ r.spawned # <<>> =>
          /\ r.created = 1
          /\ r.todo = {}
          /\ r.written = DerivedFileNames(Unwrap(r.fixture))
    /\ r.status # None => r.spawned # <<>>
    /\ r.stats # None => r.status # None
    /\ r.cleanups > 0 => Collected(r)

\* One step of a run keeps the order: once the child is spawned no file of
\* the scratch directory is written, and the directory is removed only
\* when the statistics have been collected.
PhaseStep(p) ==
    /\ PhasesSoFar(run[p])
    /\ PhasesSoFar(run'[p])
    /\ run[p].spawned # <<>> =>
          /\ run'[p].pc # "idle" => run'[p].written = run[p].written
          /\ dataDir'.exists => dataDir' = dataDir
    /\ run'[p].cleanups > run[p].cleanups => Collected(run[p])

\* C14: in every run the scratch directory is created, then all config and
\* witness files are written, then the child is spawned, then it exits,
\* then the statistics are collected, then the directory is removed; no
\* file is written once the child is spawned and the directory is not
\* removed before the statistics are collected.
C14_PhasesInOrder == [][\A p \in SeqProcs : PhaseStep(p)]_vars

\* An emulated run with config and witness files has been through every
\* phase: its directory was removed after its statistics were collected.
C14_Witness ==
    \E p \in Procs :
        /\ run[p].cleanups = 1
        /\ run[p].self.cannon # None
        /\ run[p].stats # None
        /\ Cardinality(run[p].written) >= 3
        /\ ~dataDir.exists

\* The run ended on the failure of a config or witness file write.
WriteFailed(r) ==
    /\ r.pc = "done"
    /\ r.err \in {"File::create genesis.json", "to_writer_pretty genesis.json",
                  "File::create rollup_config.json", "to_writer_pretty rollup_config.json",
                  "std::fs::write create", "std::fs::write"}

\* C15: when the write of a config or witness file fails, the run ends with
\* an IOError returned to the caller, it has spawned no child, and the
\* scratch directory is gone when the error reaches the caller.
C15_WriteFailureCleansUp ==
    \A p \in Procs :
        WriteFailed(run[p]) =>
            /\ run[p].outcome = "Err"
            /\ run[p].spawned = <<>>
            /\ ~dataDir.exists

\* The run ended because its child could not be spawned.
SpawnFailed(r) ==
    /\ r.pc = "done"
    /\ r.err \in {"Failed to execute op-program binary", "Failed to execute cannon binary"}

\* C16: when a run has ended on a materialization failure or on a spawn
\* failure, the removal of the scratch directory has been attempted, and
\* the error the caller gets is that failure, whether or not the removal
\* succeeded.
C16_CleanupAttemptedAfterError ==
    \A p \in Procs :
        (WriteFailed(run[p]) \/ SpawnFailed(run[p])) =>
            /\ run[p].cleanup_calls >= 1
            /\ run[p].err # "Failed to remove data dir"

OwnsScratchDir(r) == Materialized(r) /\ r.status = None

\* C18: while a run has materialized its files and its child has not yet
\* exited, the scratch directory is there and holds each of that run's
\* files with the content the run wrote, whatever an overlapping run does
\* in its construction or cleanup.
C18_ScratchDirIsExclusive ==
    \A p \in Procs :
        OwnsScratchDir(run[p]) =>
            /\ dataDir.exists
            /\ \A n \in DerivedFileNames(Unwrap(run[p].fixture)) :
                  /\ n \in DOMAIN dataDir.files
                  /\ dataDir.files[n] = DerivedFiles(Unwrap(run[p].fixture))[n]

\* Two runs are in progress at once, one of them waiting for its child.
C18_Witness ==
    /\ run["r1"].pc = "op_wait"
    /\ run["r2"].pc = "new_witness"
    /\ run["r2"].created = 1

\* The JSON object in rollup_config.json.
RollupConfigFile == dataDir.files["rollup_config.json"][1]

\* C19: the rollup_config.json an emulated run has materialized for an
\* Unnamed chain definition has channel_timeout 8, whatever the fixture's
\* rollup configuration says, and the fixture's values in block_time,
\* max_sequencer_drift, seq_window_size and the three contract addresses.
C19_ChannelTimeoutForcedTo8 ==
    \A p \in Procs :
        (/\ Materialized(run[p])
         /\ run[p].self.cannon # None
         /\ ChainDefinitionOf(run[p]).tag = "Unnamed")
        => LET cfg == ChainDefinitionOf(run[p]).rollup_config
           IN  /\ RollupConfigFile["channel_timeout"] = 8
               /\ \A k \in RollupConfigPlainKeys : RollupConfigFile[k] = cfg[k]

\* The files of the scratch directory other than the two config files.
OtherFiles == DOMAIN dataDir.files \ ConfigFiles

\* C20: once a run has materialized, the scratch directory holds, besides
\* genesis.json and rollup_config.json, exactly one file per witness_data
\* entry, named by the prefixed hex encoding of the key and containing the
\* value; distinct keys have distinct files.
C20_OneFilePerWitnessNamedByKey ==
    \A p \in Procs :
        Materialized(run[p]) =>
            LET wd == Unwrap(run[p].fixture).witness_data
            IN  /\ Cardinality(OtherFiles) = Cardinality(DOMAIN wd)
                /\ \A key \in DOMAIN wd :
                      /\ "0x" \o encode_hex(key) \in OtherFiles
                      /\ dataDir.files["0x" \o encode_hex(key)] = <<wd[key]>>
                /\ \A k1, k2 \in DOMAIN wd :
                      k1 # k2 => "0x" \o encode_hex(k1) # "0x" \o encode_hex(k2)

\* C20, amended: once a run has materialized, the scratch directory holds,
\* besides genesis.json and rollup_config.json, exactly one file per
\* witness_data entry, named by the prefixed hex encoding of the key
\* followed by .txt and containing the hex encoding of the value, without
\* prefix; distinct keys have distinct files.
C20_OneFilePerWitnessNamedByKeyTxt ==
    \A p \in Procs :
        Materialized(run[p]) =>
            LET wd == Unwrap(run[p].fixture).witness_data
            IN  /\ Cardinality(OtherFiles) = Cardinality(DOMAIN wd)
                /\ \A key \in DOMAIN wd :
                      /\ "0x" \o encode_hex(key) \o ".txt" \in OtherFiles
                      /\ dataDir.files["0x" \o encode_hex(key) \o ".txt"]
                            = <<encode_hex(wd[key])>>
                /\ \A k1, k2 \in DOMAIN wd :
                      k1 # k2 =>
                          "0x" \o encode_hex(k1) \o ".txt" # "0x" \o encode_hex(k2) \o ".txt"

\* A run has materialized a fixture with two witness entries and the two
\* config files: the directory holds four files.
C20_Witness ==
    \E p \in Procs :
        /\ Materialized(run[p])
        /\ Cardinality(DOMAIN Unwrap(run[p].fixture).witness_data) = 2
        /\ ChainDefinitionOf(run[p]).tag = "Unnamed"
        /\ Cardinality(DOMAIN dataDir.files) = 4
        /\ dataDir.files["0xca.txt"] = <<"ab">>

\* C21: the emulator-only counters an emulated run returns were read from a
\* debug-output file that the run's own child wrote; a run whose child
\* exited without writing the file returns no counters of a file an
\* earlier run left at debug_path.
C21_StatsFromOwnDebugFile ==
    \A p \in Procs :
        (run[p].self.cannon # None /\ run[p].stats # None) =>
            /\ run[p].debug_written # None
            /\ ParseCannonDebug(Unwrap(run[p].debug_written)) # None
            /\ Unwrap(run[p].stats).pages =
                  Some(Unwrap(ParseCannonDebug(Unwrap(run[p].debug_written))).pages)

\* An emulated run has built its statistics from the file its child wrote.
C21_Witness ==
    \E p \in Procs :
        /\ run[p].self.cannon # None
        /\ run[p].stats # None
        /\ run[p].debug_written = Some(DebugSnake)
        /\ run[p].ret.kind = "Ok"

\* The fields of the upstream configuration that the round trip is to keep,
\* besides those of the genesis.
RoundTripFields ==
    {"block_time", "max_sequencer_drift", "seq_window_size", "channel_timeout",
     "l1_chain_id", "l2_chain_id",
     "regolith_time", "canyon_time", "delta_time", "ecotone_time", "fjord_time",
     "granite_time",
     "batch_inbox_address", "deposit_contract_address", "l1_system_config_address",
     "protocol_versions_address", "da_challenge_address"}

\* C22: an upstream configuration with a system config, converted to the
\* local RollupConfig and back, has the same genesis block references and
\* L2 time, the same batcher address, overhead, scalar and gas limit, and
\* the same block_time, max_sequencer_drift, seq_window_size,
\* channel_timeout, chain ids, regolith to granite times and batch-inbox,
\* deposit-contract, system-config, protocol-versions and DA-challenge
\* addresses.
C22_RollupConfigRoundTrip ==
    conversion.pc = "back" =>
        LET cfg == Unwrap(conversion.upstream)
            back == Unwrap(conversion.back)
            sc == Unwrap(cfg.genesis.system_config)
            sc2 == Unwrap(back.genesis.system_config)
        IN  /\ back.genesis.l1 = cfg.genesis.l1
            /\ back.genesis.l2 = cfg.genesis.l2
            /\ back.genesis.l2_time = cfg.genesis.l2_time
            /\ back.genesis.system_config # None
            /\ sc2.batcher_address = sc.batcher_address
            /\ sc2.overhead = sc.overhead
            /\ sc2.scalar = sc.scalar
            /\ sc2.gas_limit = sc.gas_limit
            /\ \A k \in RoundTripFields : back[k] = cfg[k]

\* A configuration with channel_timeout 300, a granite time and a
\* DA-challenge address has been converted and converted back.
C22_Witness ==
    /\ conversion.pc = "back"
    /\ Unwrap(conversion.upstream).channel_timeout = 300
    /\ Unwrap(conversion.upstream).granite_time = Some(50)
    /\ Unwrap(conversion.back).da_challenge_address = Some("0xda01")
    /\ Unwrap(Unwrap(conversion.back).genesis.system_config).scalar = 65536

====
